---------------------------- MODULE Spec2Model ----------------------------
(***************************************************************************)
(* One measurement of grahamking/latency (src/latency.go, the current      *)
(* revision at lines 217-473): latency() starts the reply listener         *)
(* goroutine, sleeps 1 ms, sends one raw TCP SYN and waits on a WaitGroup  *)
(* for the listener, then reports receiveTime.Sub(sendTime).               *)
(*                                                                         *)
(* Two tasks (the main flow and the listener goroutine) interleave step by *)
(* step; the environment delivers datagrams to the raw listening socket,   *)
(* answers the probe, advances the clock and makes system calls fail.      *)
(* One clock tick is one millisecond.                                      *)
(***************************************************************************)
EXTENDS Integers, Sequences, FiniteSets, TLC

\* ------------------------------------------------------------------ bounds
MaxTime == 3            \* the clock runs 1..MaxTime
MaxArrivals == 2        \* unrelated inbound datagrams the environment delivers
MaxTargets == 2         \* hosts of defaultHosts that autoTest measures

\* --------------------------------------------------------------- constants
SleepTicks == 1         \* time.Sleep(1 * time.Millisecond)
DataOffset == 5         \* TCPHeader.DataOffset of the probe, in 32-bit words
SYN == 2                \* Ctrl: 2 (000010, SYN bit set)
RST == 4
ACK == 16

SourcePort == 43591     \* Source: 0xaa47
WindowSize == 43690     \* Window: 0xaaaa
DefaultPort == 80       \* flag.Int("p", 80, ...)
ProtoTcp == 6           \* the protocol number in the pseudo-header
MinHeader == 20         \* the least TCP header, in bytes

\* len(data): the serialized probe has DataOffset*4 bytes and no options
DataLen == DataOffset * 4

ZeroTime == 0           \* var receiveTime time.Time (the zero value)
NoResult == <<>>        \* latency has not returned a duration
NoAddr == "unresolved"
NoDgram == [src |-> "nobody", ctrl |-> 0, afterSyn |-> FALSE, stamp |-> 0]

\* a 32-bit value is held as its two 16-bit halves, <<high, low>>
NoPacket == [Source |-> 0, Destination |-> 0, SeqNum |-> <<0, 0>>, AckNum |-> <<0, 0>>,
             DataOffset |-> 0, Reserved |-> 0, ECN |-> 0, Ctrl |-> 0,
             Window |-> 0, Checksum |-> 0, Urgent |-> 0, Options |-> <<>>]

Local == "10.0.0.1"     \* the interface's address, localAddr
Remote == "10.0.0.2"    \* the target's IPv4 address
Remote6 == "2001:db8::2"  \* the target's IPv6 address, which LookupHost may list first
Other == "10.0.0.9"     \* any other host sending TCP segments to this one

\* what LookupHost may return as addrs[0]
ResolvedAddrs == {Remote, Remote6}
\* control bits of unrelated inbound segments: SYN, RST, ACK, SYN+ACK
CtrlValues == {SYN, RST, ACK, SYN + ACK}
\* unrelated inbound segments, as <<source, control bits>>: anything from the
\* remote host; a RST or a SYN+ACK from another host
Inbound == ({Remote} \X CtrlValues) \cup ({Other} \X {RST, SYN + ACK})
\* byte counts conn.Write may report: nothing, all but one byte, all
WroteCounts == {0, DataLen - 1, DataLen}
\* ports given with -p: the default, another, the largest
PortValues == {DefaultPort, 443, 65535}
\* values rand.Uint32() may return for the probe's sequence number
SeqNums == {<<0, 0>>, <<0, 1>>, <<4660, 22136>>, <<65535, 65535>>}
\* the first value of a source that was never seeded
DefaultSeq == <<4660, 22136>>
\* the value that follows s in the sequence of the source
NextSeq(s) ==
  CASE s = DefaultSeq -> <<65535, 65535>>
    [] s = <<65535, 65535>> -> <<0, 1>>
    [] s = <<0, 1>> -> <<0, 0>>
    [] OTHER -> DefaultSeq
\* control bits of a host's answer to a SYN: SYN+ACK (open port), RST+ACK (closed)
ReplyCtrls == {SYN + ACK, RST + ACK}

VARIABLES
  now,          \* the wall clock (time.Now())
  proc,         \* "running" | "exited" (log.Fatalf ends the whole process)
  fatal,        \* which log.Fatalf ended it, "none" while running
  mpc,          \* position of the main flow in latency()/sendSyn()
  remoteAddr,   \* latency: remoteAddr := addrs[0]
  wg,           \* latency: the WaitGroup counter
  receiveTime,  \* latency: var receiveTime time.Time
  sendTime,     \* sendSyn: sendTime := time.Now()
  deadline,     \* when time.Sleep returns
  ssock,        \* sendSyn: conn, "none" | "open" | "closed"
  numWrote,     \* sendSyn: bytes conn.Write reported, -1 before the write
  werr,         \* sendSyn: conn.Write returned an error
  result,       \* <<the duration latency returned>>, NoResult before
  lpc,          \* position of the listener goroutine
  lsock,        \* receiveSynAck: conn, "none" | "open"
  lrt,          \* receiveSynAck: var receiveTime time.Time
  cur,          \* receiveSynAck: the datagram ReadFrom returned last (buf, raddr),
                \* with the history of when it arrived and when it was stamped
  rerr,         \* receiveSynAck: ReadFrom returned an error
  rxq,          \* receive queue of the listening socket
  rlog,         \* history: datagrams the loop has dealt with, with their stamps
  arrivals,     \* history: unrelated datagrams delivered so far
  synOnWire,    \* the probe has been written in full
  answered,     \* the remote host has answered the probe
  rng,          \* the value rand.Uint32() returns in this call of latency
  port,         \* main: port := uint16(*portParam)
  packet,       \* sendSyn: packet, NoPacket before it is constructed
  data,         \* sendSyn: data, the bytes of the last packet.Marshal()
  nListen,      \* history: listening sockets this call of latency has opened
  nDial,        \* history: send sockets this call of latency has opened
  nWrites,      \* history: calls of conn.Write in this call of latency
  todo,         \* autoTest: targets still to measure after this one
  stale,        \* history: listener goroutines of earlier calls still running
  leaked,       \* history: listening sockets of earlier calls still open
  cpc,          \* codec exercise: "off" | "encode" | "decode" | "decoded"
  decoded       \* codec exercise: the header NewTCPHeader read back

vars == <<now, proc, fatal, mpc, remoteAddr, wg, receiveTime, sendTime, deadline,
          ssock, numWrote, werr, result, lpc, lsock, lrt, cur, rerr, rxq, rlog,
          arrivals, synOnWire, answered, rng, port, packet, data,
          nListen, nDial, nWrites, todo, stale, leaked, cpc, decoded>>

mainVars == <<mpc, remoteAddr, wg, receiveTime, sendTime, deadline, ssock,
              numWrote, werr, result>>
sendVars == <<sendTime, ssock, numWrote, werr>>
listenerVars == <<lpc, lsock, lrt, cur, rerr, rlog>>
envVars == <<now, rxq, arrivals, synOnWire, answered>>
pktVars == <<rng, port, packet, data>>
countVars == <<nListen, nDial, nWrites>>
autoVars == <<todo, stale, leaked>>
codecVars == <<cpc, decoded>>

\* ------------------------------------------------------------ pure helpers

\* tcp.HasFlag(f): a single bit of the control bits
HasFlag(ctrl, f) == (ctrl \div f) % 2 = 1

\* the exit test with || in place of &&
QualifiesEither(ctrl) == HasFlag(ctrl, RST) \/ HasFlag(ctrl, SYN) \/ HasFlag(ctrl, ACK)

\* the exit test without its ACK half
QualifiesSynOnly(ctrl) == HasFlag(ctrl, RST) \/ HasFlag(ctrl, SYN)

\* the loop's exit test: RST, or both SYN and ACK
Qualifies(ctrl) == HasFlag(ctrl, RST) \/ (HasFlag(ctrl, SYN) /\ HasFlag(ctrl, ACK))

\* receiveSynAck without the remote-address filter
NeverFilteredOut(d, remoteAddress) == FALSE

\* raddr.String() != remoteAddress
FilteredOut(d, remoteAddress) == d.src # remoteAddress

\* a difference that is never reported below zero
TimeSubClamped(t, u) == IF t > u THEN t - u ELSE 0

\* receiveTime.Sub(sendTime)
TimeSub(t, u) == t - u

\* strconv.Atoi on each part of strings.Split(addr, "."): the number and
\* whether there was no error
Num(n) == [val |-> n, ok |-> TRUE]
NotNum == [val |-> 0, ok |-> FALSE]
AtoiParts(addr) ==
  CASE addr = Local -> <<Num(10), Num(0), Num(0), Num(1)>>
    [] addr = Remote -> <<Num(10), Num(0), Num(0), Num(2)>>
    [] addr = Other -> <<Num(10), Num(0), Num(0), Num(9)>>
    [] addr = Remote6 -> <<NotNum>>
    [] OTHER -> <<NotNum>>

\* strconv.Atoi(parts[0]) succeeds on the first dotted part of addr
FirstPartIsNumber(addr) == AtoiParts(addr)[1].ok

\* to4byte: [4]byte{byte(b0), byte(b1), byte(b2), byte(b3)}
To4byte(addr) == [i \in 1..4 |-> AtoiParts(addr)[i].val % 256]

\* big-endian bytes of a 16-bit and of a 32-bit value
U16(v) == <<(v \div 256) % 256, v % 256>>
U32(v) == U16(v[1]) \o U16(v[2])
\* the values read back from bytes i, i+1 and from bytes i..i+3
Get16(b, i) == b[i] * 256 + b[i + 1]
Get32(b, i) == <<Get16(b, i), Get16(b, i + 2)>>

\* the packed bits without the ECN bits
MixNoEcn(h) == h.DataOffset * 4096 + h.Reserved * 512 + h.Ctrl

\* the 16 bits that pack DataOffset (4), Reserved (3), ECN (3) and Ctrl (6)
Mix(h) == h.DataOffset * 4096 + h.Reserved * 512 + h.ECN * 64 + h.Ctrl

\* TCPHeader.Marshal: the header's wire bytes, then the option bytes
Marshal(h) ==
  U16(h.Source) \o U16(h.Destination) \o U32(h.SeqNum) \o U32(h.AckNum)
    \o U16(Mix(h)) \o U16(h.Window) \o U16(h.Checksum) \o U16(h.Urgent)
    \o h.Options

\* NewTCPHeader: the header read back from at least 20 bytes, the options being
\* the bytes after the fixed header up to DataOffset words
NewTCPHeader(b) ==
  [Source |-> Get16(b, 1), Destination |-> Get16(b, 3),
   SeqNum |-> Get32(b, 5), AckNum |-> Get32(b, 9),
   DataOffset |-> b[13] \div 16,
   Reserved |-> (b[13] \div 2) % 8,
   ECN |-> (b[13] % 2) * 4 + b[14] \div 64,
   Ctrl |-> b[14] % 64,
   Window |-> Get16(b, 15), Checksum |-> Get16(b, 17), Urgent |-> Get16(b, 19),
   Options |-> SubSeq(b, MinHeader + 1, (b[13] \div 16) * 4)]

\* the sum of the 16-bit words of b, an odd last byte being a high byte
RECURSIVE WordSum(_, _)
WordSum(b, i) ==
  IF i > Len(b) THEN 0
  ELSE IF i = Len(b) THEN b[i] * 256
  ELSE b[i] * 256 + b[i + 1] + WordSum(b, i + 2)

\* end-around carry: the carries out of 16 bits are added back
RECURSIVE Fold(_)
Fold(n) == IF n < 65536 THEN n ELSE Fold((n \div 65536) + (n % 65536))

\* Csum: the one's complement of the folded sum over the pseudo-header (source,
\* destination, zero, protocol, segment length) and the segment's bytes, the
\* checksum field counting as zero
Csum(b, srcip, dstip) ==
  LET pseudo == srcip \o dstip \o <<0, ProtoTcp>> \o U16(Len(b))
      seg == [i \in 1..Len(b) |-> IF i \in {17, 18} THEN 0 ELSE b[i]]
  IN  65535 - Fold(WordSum(pseudo \o seg, 1))

Running == proc = "running"

\* log.Fatalf: print and os.Exit(1), which ends every goroutine
Fatalf(why) == /\ proc' = "exited"
               /\ fatal' = why

\* the state in which latency() is entered for the first time, but for the
\* targets that remain, the segment in hand and the codec exercise
InitCall ==
  /\ now = 1
  /\ proc = "running"
  /\ fatal = "none"
  /\ mpc = "lookup"
  /\ remoteAddr = NoAddr
  /\ wg = 1
  /\ receiveTime = ZeroTime
  /\ sendTime = ZeroTime
  /\ deadline = 0
  /\ ssock = "none"
  /\ numWrote = -1
  /\ werr = FALSE
  /\ result = NoResult
  /\ lpc = "unstarted"
  /\ lsock = "none"
  /\ lrt = ZeroTime
  /\ cur = NoDgram
  /\ rerr = FALSE
  /\ rxq = <<>>
  /\ rlog = <<>>
  /\ arrivals = 0
  /\ synOnWire = FALSE
  /\ answered = FALSE
  /\ data = <<>>
  /\ nListen = 0
  /\ nDial = 0
  /\ nWrites = 0
  /\ stale = 0
  /\ leaked = 0
  /\ decoded = NoPacket

\* main() calls latency() once, for the host on the command line
Init ==
  /\ InitCall
  /\ rng = DefaultSeq
  /\ port = DefaultPort
  /\ packet = NoPacket
  /\ todo = 0
  /\ cpc = "off"

\* one call of latency() for a port given with -p and any state of the source
\* of random numbers
SendInit ==
  /\ InitCall
  /\ rng \in SeqNums
  /\ port \in PortValues
  /\ packet = NoPacket
  /\ todo = 0
  /\ cpc = "off"

\* main() calls autoTest, which calls latency() for the first of its hosts
AutoInit ==
  /\ InitCall
  /\ rng = DefaultSeq
  /\ port = DefaultPort
  /\ packet = NoPacket
  /\ todo = MaxTargets - 1
  /\ cpc = "off"

\* headers without options, field by field
Ports == {0, SourcePort} \cup PortValues
ThreeBits == {0, 5, 7}
SixBits == {0, SYN, SYN + ACK, 63}
Words == {0, 4660, 65535}
Segments ==
  [Source : Ports, Destination : {DefaultPort, 65535}, SeqNum : SeqNums,
   AckNum : {<<0, 0>>, <<65535, 65535>>}, DataOffset : {DataOffset},
   Reserved : {0, 7}, ECN : ThreeBits, Ctrl : SixBits, Window : {0, WindowSize},
   Checksum : Words, Urgent : {0, 1}, Options : {<<>>}]

\* the codec exercise: a header is marshalled and read back
CodecInit ==
  /\ InitCall
  /\ rng = DefaultSeq
  /\ port = DefaultPort
  /\ packet \in Segments
  /\ todo = 0
  /\ cpc = "encode"

\* ------------------------------------------------------- main flow: latency

\* addrs, err := net.LookupHost(remoteHost); remoteAddr := addrs[0]
LookupHost ==
  /\ Running /\ mpc = "lookup"
  /\ \E a \in ResolvedAddrs : remoteAddr' = a
  /\ mpc' = "go"
  /\ UNCHANGED <<now, proc, fatal, wg, receiveTime, deadline, result>>
  /\ UNCHANGED <<sendVars, listenerVars, rxq, arrivals, synOnWire, answered>>
  /\ UNCHANGED <<pktVars, countVars, autoVars, codecVars>>

\* a resolution that is made, and fails, after the listener was started
LookupHostFailsLate ==
  /\ Running /\ mpc = "build"
  /\ Fatalf("lookup")
  /\ UNCHANGED <<mainVars, listenerVars, envVars>>
  /\ UNCHANGED <<pktVars, countVars, autoVars, codecVars>>

\* if err != nil { log.Fatalf("Error resolving ...") }
LookupHostFails ==
  /\ Running /\ mpc = "lookup"
  /\ Fatalf("lookup")
  /\ UNCHANGED <<mainVars, listenerVars, envVars>>
  /\ UNCHANGED <<pktVars, countVars, autoVars, codecVars>>

\* go func() { receiveTime = receiveSynAck(localAddr, remoteAddr); wg.Done() }()
GoListener ==
  /\ Running /\ mpc = "go"
  /\ lpc' = "listen"
  /\ mpc' = "sleep"
  /\ UNCHANGED <<now, proc, fatal, remoteAddr, wg, receiveTime, deadline, result>>
  /\ UNCHANGED <<sendVars, lsock, lrt, cur, rerr, rlog, rxq, arrivals, synOnWire, answered>>
  /\ UNCHANGED <<pktVars, countVars, autoVars, codecVars>>

\* time.Sleep(1 * time.Millisecond): the call
SleepCall ==
  /\ Running /\ mpc = "sleep"
  /\ deadline' = now + SleepTicks
  /\ mpc' = "sleeping"
  /\ UNCHANGED <<now, proc, fatal, remoteAddr, wg, receiveTime, result>>
  /\ UNCHANGED <<sendVars, listenerVars, rxq, arrivals, synOnWire, answered>>
  /\ UNCHANGED <<pktVars, countVars, autoVars, codecVars>>

\* time.Sleep returns once at least the duration has passed
SleepReturn ==
  /\ Running /\ mpc = "sleeping"
  /\ now >= deadline
  /\ mpc' = "build"
  /\ UNCHANGED <<now, proc, fatal, remoteAddr, wg, receiveTime, deadline, result>>
  /\ UNCHANGED <<sendVars, listenerVars, rxq, arrivals, synOnWire, answered>>
  /\ UNCHANGED <<pktVars, countVars, autoVars, codecVars>>

\* ------------------------------------------------------ main flow: sendSyn

\* packet := TCPHeader{...}, with SeqNum: rand.Uint32()
SynPacket(dport, seq) ==
  [Source |-> SourcePort, Destination |-> dport, SeqNum |-> seq, AckNum |-> <<0, 0>>,
   DataOffset |-> DataOffset, Reserved |-> 0, ECN |-> 0, Ctrl |-> SYN,
   Window |-> WindowSize, Checksum |-> 0, Urgent |-> 0, Options |-> <<>>]

\* packet := TCPHeader{...}; data := packet.Marshal()
BuildPacket ==
  /\ Running /\ mpc = "build"
  /\ packet' = SynPacket(port, rng)
  /\ data' = Marshal(packet')
  /\ mpc' = "csum"
  /\ UNCHANGED <<now, proc, fatal, remoteAddr, wg, receiveTime, deadline, result>>
  /\ UNCHANGED <<sendVars, listenerVars, rxq, arrivals, synOnWire, answered>>
  /\ UNCHANGED <<rng, port, countVars, autoVars, codecVars>>

\* packet.Checksum = Csum(data, to4byte(laddr), to4byte(raddr))
Checksummed(h, b, laddr, raddr) ==
  [h EXCEPT !.Checksum = Csum(b, To4byte(laddr), To4byte(raddr))]

\* the first serialization kept, the header not marshalled again
FirstData(h, b) == b

\* the bytes handed to conn.Write: data = packet.Marshal(), after the checksum
FinalData(h, b) == Marshal(h)

\* packet.Checksum = Csum(data, to4byte(laddr), to4byte(raddr));
\* data = packet.Marshal()
ChecksumPacket ==
  /\ Running /\ mpc = "csum"
  /\ FirstPartIsNumber(Local) /\ FirstPartIsNumber(remoteAddr)
  /\ packet' = Checksummed(packet, data, Local, remoteAddr)
  /\ data' = FinalData(packet', data)
  /\ mpc' = "dial"
  /\ UNCHANGED <<now, proc, fatal, remoteAddr, wg, receiveTime, deadline, result>>
  /\ UNCHANGED <<sendVars, listenerVars, rxq, arrivals, synOnWire, answered>>
  /\ UNCHANGED <<rng, port, countVars, autoVars, codecVars>>

\* to4byte: b0, err := strconv.Atoi(parts[0]); if err != nil { log.Fatalf(...) }
To4byteFails ==
  /\ Running /\ mpc = "csum"
  /\ ~(FirstPartIsNumber(Local) /\ FirstPartIsNumber(remoteAddr))
  /\ Fatalf("to4byte")
  /\ UNCHANGED <<mainVars, listenerVars, envVars>>
  /\ UNCHANGED <<pktVars, countVars, autoVars, codecVars>>

\* conn, err := net.Dial("ip4:tcp", raddr)
Dial ==
  /\ Running /\ mpc = "dial"
  /\ ssock' = "open"
  /\ nDial' = nDial + 1
  /\ mpc' = "now"
  /\ UNCHANGED <<now, proc, fatal, remoteAddr, wg, receiveTime, deadline, result>>
  /\ UNCHANGED <<sendTime, numWrote, werr, listenerVars, rxq, arrivals, synOnWire, answered>>
  /\ UNCHANGED <<pktVars, nListen, nWrites, autoVars, codecVars>>

\* if err != nil { log.Fatalf("Dial: ...") }
DialFails ==
  /\ Running /\ mpc = "dial"
  /\ Fatalf("dial")
  /\ UNCHANGED <<mainVars, listenerVars, envVars>>
  /\ UNCHANGED <<pktVars, countVars, autoVars, codecVars>>

\* sendTime := time.Now()
TakeSendTime ==
  /\ Running /\ mpc = "now"
  /\ sendTime' = now
  /\ mpc' = "write"
  /\ UNCHANGED <<now, proc, fatal, remoteAddr, wg, receiveTime, deadline, result>>
  /\ UNCHANGED <<ssock, numWrote, werr, listenerVars, rxq, arrivals, synOnWire, answered>>
  /\ UNCHANGED <<pktVars, countVars, autoVars, codecVars>>

\* a write whose count is not compared with len(data)
CheckWroteNothing(n) ==
  /\ mpc' = "close"
  /\ synOnWire' = TRUE
  /\ UNCHANGED <<proc, fatal>>

\* a short write that is answered by writing again
CheckWroteRetry(n) ==
  IF n # DataLen
    THEN UNCHANGED <<mpc, synOnWire, proc, fatal>>
    ELSE /\ mpc' = "close"
         /\ synOnWire' = TRUE
         /\ UNCHANGED <<proc, fatal>>

\* if numWrote != len(data) { log.Fatalf("Short write ...") }
CheckWrote(n) ==
  IF n # DataLen
    THEN /\ Fatalf("shortwrite")
         /\ UNCHANGED <<mpc, synOnWire>>
    ELSE /\ mpc' = "close"
         /\ synOnWire' = TRUE
         /\ UNCHANGED <<proc, fatal>>

\* numWrote, err := conn.Write(data) without an error: n bytes were written
Write ==
  /\ Running /\ mpc = "write"
  /\ \E n \in WroteCounts :
       /\ numWrote' = n
       /\ CheckWrote(n)
  /\ nWrites' = nWrites + 1
  /\ UNCHANGED <<now, remoteAddr, wg, receiveTime, deadline, result>>
  /\ UNCHANGED <<sendTime, ssock, werr, listenerVars, rxq, arrivals, answered>>
  /\ UNCHANGED <<pktVars, nListen, nDial, autoVars, codecVars>>

\* conn.Write returns an error: if err != nil { log.Fatalf("Write: ...") }
WriteFails ==
  /\ Running /\ mpc = "write"
  /\ werr' = TRUE
  /\ numWrote' = 0
  /\ nWrites' = nWrites + 1
  /\ Fatalf("write")
  /\ UNCHANGED <<now, mpc, remoteAddr, wg, receiveTime, deadline, result>>
  /\ UNCHANGED <<sendTime, ssock, listenerVars, rxq, arrivals, synOnWire, answered>>
  /\ UNCHANGED <<pktVars, nListen, nDial, autoVars, codecVars>>

\* return sendTime without conn.Close()
CloseSendSkipped ==
  /\ Running /\ mpc = "close"
  /\ mpc' = "wait"
  /\ UNCHANGED <<now, proc, fatal, remoteAddr, wg, receiveTime, deadline, result>>
  /\ UNCHANGED <<sendVars, listenerVars, rxq, arrivals, synOnWire, answered>>
  /\ UNCHANGED <<pktVars, countVars, autoVars, codecVars>>

\* conn.Close(); return sendTime
CloseSend ==
  /\ Running /\ mpc = "close"
  /\ ssock' = "closed"
  /\ mpc' = "wait"
  /\ UNCHANGED <<now, proc, fatal, remoteAddr, wg, receiveTime, deadline, result>>
  /\ UNCHANGED <<sendTime, numWrote, werr, listenerVars, rxq, arrivals, synOnWire, answered>>
  /\ UNCHANGED <<pktVars, countVars, autoVars, codecVars>>

\* a wait that does not block
WaitNoBlock == TRUE

\* wg.Wait() returns when the counter is zero
WaitReturns == wg = 0

Wait ==
  /\ Running /\ mpc = "wait"
  /\ WaitReturns
  /\ mpc' = "sub"
  /\ UNCHANGED <<now, proc, fatal, remoteAddr, wg, receiveTime, deadline, result>>
  /\ UNCHANGED <<sendVars, listenerVars, rxq, arrivals, synOnWire, answered>>
  /\ UNCHANGED <<pktVars, countVars, autoVars, codecVars>>

\* return receiveTime.Sub(sendTime)
Sub ==
  /\ Running /\ mpc = "sub"
  /\ result' = <<TimeSub(receiveTime, sendTime)>>
  /\ mpc' = "done"
  /\ UNCHANGED <<now, proc, fatal, remoteAddr, wg, receiveTime, deadline>>
  /\ UNCHANGED <<sendVars, listenerVars, rxq, arrivals, synOnWire, answered>>
  /\ UNCHANGED <<pktVars, countVars, autoVars, codecVars>>


\* ------------------------------------------ listener goroutine: receiveSynAck

\* netaddr, err := net.ResolveIPAddr("ip4", localAddress);
\* conn, err := net.ListenIP("ip4:tcp", netaddr)
ListenIP ==
  /\ Running /\ lpc = "listen"
  /\ lsock' = "open"
  /\ nListen' = nListen + 1
  /\ lpc' = "read"
  /\ UNCHANGED <<proc, fatal, mainVars, envVars, lrt, cur, rerr, rlog>>
  /\ UNCHANGED <<pktVars, nDial, nWrites, autoVars, codecVars>>

\* if err != nil { log.Fatalf("ListenIP: ...") }
ListenIPFails ==
  /\ Running /\ lpc = "listen"
  /\ Fatalf("listen")
  /\ UNCHANGED <<mainVars, listenerVars, envVars>>
  /\ UNCHANGED <<pktVars, countVars, autoVars, codecVars>>

\* numRead, raddr, err := conn.ReadFrom(buf): blocks until a datagram is queued
ReadFrom ==
  /\ Running /\ lpc = "read"
  /\ rxq # <<>>
  /\ cur' = [src |-> Head(rxq).src, ctrl |-> Head(rxq).ctrl,
              afterSyn |-> Head(rxq).afterSyn, stamp |-> ZeroTime]
  /\ rxq' = Tail(rxq)
  /\ lpc' = "filter"
  /\ UNCHANGED <<proc, fatal, mainVars, now, arrivals, synOnWire, answered>>
  /\ UNCHANGED <<lsock, lrt, rerr, rlog>>
  /\ UNCHANGED <<pktVars, countVars, autoVars, codecVars>>

\* conn.ReadFrom returns an error
ReadFromFails ==
  /\ Running /\ lpc = "read"
  /\ rerr' = TRUE
  /\ lpc' = "readerr"
  /\ UNCHANGED <<proc, fatal, mainVars, envVars, lsock, lrt, cur, rlog>>
  /\ UNCHANGED <<pktVars, countVars, autoVars, codecVars>>

\* a read error that is dropped, the loop going on with the buffer as it is
ReadErrIgnored ==
  /\ lpc' = "filter"
  /\ UNCHANGED <<proc, fatal>>

\* if err != nil { log.Fatalf("ReadFrom: ...") }
ReadErrCheck ==
  /\ Fatalf("read")
  /\ UNCHANGED lpc

ReadFatal ==
  /\ Running /\ lpc = "readerr"
  /\ ReadErrCheck
  /\ UNCHANGED <<mainVars, envVars, lsock, lrt, cur, rerr, rlog>>
  /\ UNCHANGED <<pktVars, countVars, autoVars, codecVars>>

\* if raddr.String() != remoteAddress { continue }
Filter ==
  /\ Running /\ lpc = "filter"
  /\ IF FilteredOut(cur, remoteAddr)
       THEN /\ lpc' = "read"
            /\ rlog' = Append(rlog, cur)
       ELSE /\ lpc' = "stamp"
            /\ UNCHANGED rlog
  /\ UNCHANGED <<proc, fatal, mainVars, envVars, lsock, lrt, cur, rerr>>
  /\ UNCHANGED <<pktVars, countVars, autoVars, codecVars>>

\* receiveTime = time.Now(): the new value of receiveTime, given the old one
Stamped(old, t) == t

Stamp ==
  /\ Running /\ lpc = "stamp"
  /\ lrt' = Stamped(lrt, now)
  /\ cur' = [cur EXCEPT !.stamp = now]
  /\ lpc' = "decode"
  /\ UNCHANGED <<proc, fatal, mainVars, envVars, lsock, rerr, rlog>>
  /\ UNCHANGED <<pktVars, countVars, autoVars, codecVars>>

\* tcp := NewTCPHeader(buf[:numRead]);
\* if tcp.HasFlag(RST) || (tcp.HasFlag(SYN) && tcp.HasFlag(ACK)) { break }
Decode ==
  /\ Running /\ lpc = "decode"
  /\ rlog' = Append(rlog, cur)
  /\ lpc' = IF Qualifies(cur.ctrl) THEN "return" ELSE "read"
  /\ UNCHANGED <<proc, fatal, mainVars, envVars, lsock, lrt, cur, rerr>>
  /\ UNCHANGED <<pktVars, countVars, autoVars, codecVars>>

\* return receiveTime, assigned by the goroutine: receiveTime = receiveSynAck(...)
Publish ==
  /\ Running /\ lpc = "return"
  /\ receiveTime' = lrt
  /\ lpc' = "wgdone"
  /\ UNCHANGED <<proc, fatal, envVars, lsock, lrt, cur, rerr, rlog>>
  /\ UNCHANGED <<mpc, remoteAddr, wg, sendTime, deadline, ssock, numWrote, werr, result>>
  /\ UNCHANGED <<pktVars, countVars, autoVars, codecVars>>

\* wg.Done()
WgDone ==
  /\ Running /\ lpc = "wgdone"
  /\ wg' = wg - 1
  /\ lpc' = "exit"
  /\ UNCHANGED <<proc, fatal, envVars, lsock, lrt, cur, rerr, rlog>>
  /\ UNCHANGED <<mpc, remoteAddr, receiveTime, sendTime, deadline, ssock, numWrote, werr, result>>
  /\ UNCHANGED <<pktVars, countVars, autoVars, codecVars>>

\* ------------------------------------------------------------- environment

\* the clock advances; while the main flow has yet to sleep, room is kept for it
Tick ==
  /\ Running
  /\ now + 1 + (IF mpc \in {"lookup", "go", "sleep"} THEN SleepTicks ELSE 0) <= MaxTime
  /\ now' = now + 1
  /\ UNCHANGED <<proc, fatal, mainVars, listenerVars, rxq, arrivals, synOnWire, answered>>
  /\ UNCHANGED <<pktVars, countVars, autoVars, codecVars>>

\* a TCP segment that is no answer to the probe reaches the host: the raw socket,
\* once open, queues every inbound TCP segment
Arrive ==
  /\ Running /\ lsock = "open"
  /\ arrivals < MaxArrivals
  /\ \E d \in Inbound :
       rxq' = Append(rxq, [src |-> d[1], ctrl |-> d[2], afterSyn |-> synOnWire])
  /\ arrivals' = arrivals + 1
  /\ UNCHANGED <<proc, fatal, mainVars, listenerVars, now, synOnWire, answered>>
  /\ UNCHANGED <<pktVars, countVars, autoVars, codecVars>>

\* the remote host answers the SYN with SYN+ACK or RST; the answer is queued if
\* the listening socket is open and is lost otherwise
RemoteAnswers ==
  /\ Running /\ synOnWire /\ ~answered
  /\ answered' = TRUE
  /\ \E c \in ReplyCtrls :
       rxq' = IF lsock = "open"
                THEN Append(rxq, [src |-> remoteAddr, ctrl |-> c, afterSyn |-> TRUE])
                ELSE rxq
  /\ UNCHANGED <<proc, fatal, mainVars, listenerVars, now, arrivals, synOnWire>>
  /\ UNCHANGED <<pktVars, countVars, autoVars, codecVars>>

\* ----------------------------------------------------------- specification

\* ------------------------------------------------------------- autoTest

\* for name, host := range defaultHosts { ... latency(localAddr, host, port) }:
\* latency has returned and is called for the next host. A listener goroutine or
\* a listening socket the call left behind is counted.
NextTarget ==
  /\ Running /\ mpc = "done" /\ todo > 0
  /\ todo' = todo - 1
  /\ stale' = stale + (IF lpc \in {"unstarted", "exit"} THEN 0 ELSE 1)
  /\ leaked' = leaked + (IF lsock = "open" THEN 1 ELSE 0)
  /\ mpc' = "lookup" /\ remoteAddr' = NoAddr /\ wg' = 1
  /\ receiveTime' = ZeroTime /\ sendTime' = ZeroTime /\ deadline' = 0
  /\ ssock' = "none" /\ numWrote' = -1 /\ werr' = FALSE /\ result' = NoResult
  /\ lpc' = "unstarted" /\ lsock' = "none" /\ lrt' = ZeroTime
  /\ cur' = NoDgram /\ rerr' = FALSE /\ rlog' = <<>>
  /\ rxq' = <<>> /\ synOnWire' = FALSE /\ answered' = FALSE
  /\ rng' = NextSeq(rng)
  /\ packet' = NoPacket /\ data' = <<>>
  /\ nListen' = 0 /\ nDial' = 0 /\ nWrites' = 0
  /\ UNCHANGED <<now, proc, fatal, arrivals, port, codecVars>>

\* ---------------------------------------------------------- codec exercise

\* data := packet.Marshal()
CodecEncode ==
  /\ cpc = "encode"
  /\ data' = Marshal(packet)
  /\ cpc' = "decode"
  /\ UNCHANGED <<proc, fatal, mainVars, listenerVars, envVars>>
  /\ UNCHANGED <<rng, port, packet, countVars, autoVars, decoded>>

\* tcp := NewTCPHeader(buf[:numRead])
CodecDecode ==
  /\ cpc = "decode"
  /\ decoded' = NewTCPHeader(data)
  /\ cpc' = "decoded"
  /\ UNCHANGED <<proc, fatal, mainVars, listenerVars, envVars>>
  /\ UNCHANGED <<pktVars, countVars, autoVars>>

\* the steps of the main flow, system calls succeeding
MainStep ==
  \/ LookupHost \/ GoListener \/ SleepCall \/ SleepReturn \/ BuildPacket
  \/ ChecksumPacket \/ To4byteFails \/ Dial \/ TakeSendTime \/ Write \/ CloseSend \/ Wait \/ Sub

\* the steps of the listener goroutine, system calls succeeding
ListenerStep ==
  \/ ListenIP \/ ReadFrom \/ ReadFatal \/ Filter \/ Stamp \/ Decode
  \/ Publish \/ WgDone

\* a system call returns an error
Failure ==
  \/ LookupHostFails \/ DialFails \/ WriteFails \/ ListenIPFails \/ ReadFromFails

Next == MainStep \/ ListenerStep \/ Failure \/ Tick \/ Arrive \/ RemoteAnswers

Spec == Init /\ [][Next]_vars

\* auto mode: one call of latency after the other
AutoNext == Next \/ NextTarget

AutoSpec == AutoInit /\ [][AutoNext]_vars

\* the main flow on its own, as long as the listener goroutine is not scheduled
SendNext ==
  \/ LookupHost \/ LookupHostFails \/ GoListener \/ SleepCall \/ SleepReturn
  \/ BuildPacket \/ ChecksumPacket \/ To4byteFails \/ Dial \/ DialFails
  \/ TakeSendTime \/ Write \/ WriteFails \/ CloseSend \/ Tick

SendSpec == SendInit /\ [][SendNext]_vars

\* a header through Marshal and NewTCPHeader
CodecNext == CodecEncode \/ CodecDecode

CodecSpec == CodecInit /\ [][CodecNext]_vars

\* Fair scheduling: a task that can take a step takes one, time passes, and the
\* remote host answers a probe that is on the wire. Failures stay the
\* environment's choice.
FairSpec ==
  /\ Init /\ [][Next]_vars
  /\ WF_vars(MainStep)
  /\ WF_vars(ListenerStep)
  /\ WF_vars(Tick)
  /\ WF_vars(RemoteAnswers)


\* ------------------------------------------------------------------ claims

\* the listener loop has been left by its break
LoopStopped == lpc \in {"return", "wgdone", "exit"}

\* a datagram from the remote address whose header has RST, or both SYN and ACK
IsAnswer(d) ==
  /\ d.src = remoteAddr
  /\ (HasFlag(d.ctrl, RST) \/ (HasFlag(d.ctrl, SYN) /\ HasFlag(d.ctrl, ACK)))

Last(q) == q[Len(q)]

\* C1: receiveSynAck stops on, and only on, the first datagram read from the
\* remote address that has RST or both SYN and ACK, and returns the timestamp
\* taken for that datagram: once the loop has stopped, the last datagram it dealt
\* with is such a datagram, none before it is, and the value to return is that
\* datagram's stamp; while the loop runs, no datagram dealt with is one.
C1_StopsOnFirstAnswer ==
  /\ LoopStopped =>
       /\ rlog # <<>>
       /\ IsAnswer(Last(rlog))
       /\ \A i \in 1..(Len(rlog) - 1) : ~IsAnswer(rlog[i])
       /\ lrt = Last(rlog).stamp
       /\ lrt # ZeroTime
  /\ ~LoopStopped => \A i \in 1..Len(rlog) : ~IsAnswer(rlog[i])

\* C1 witness: the loop stopped on an answer after an earlier datagram from the
\* remote address that did not qualify and was stamped at another time
C1_Witness ==
  /\ LoopStopped
  /\ Len(rlog) >= 2
  /\ rlog[1].src = remoteAddr
  /\ rlog[1].stamp # ZeroTime
  /\ rlog[1].stamp # lrt

\* the datagrams the loop has dealt with that came from another source
FromOthers == {i \in 1..Len(rlog) : rlog[i].src # remoteAddr}

\* C2: listener filtering. Segments from a source other than the remote-filter
\* address, whatever their flags, are never stamped, never end the loop and
\* never set the timestamp to return; when the loop has stopped, the timestamp
\* to return is the stamp of the one segment dealt with that is from the remote
\* address and has RST or SYN+ACK.
C2_OtherSourcesIgnored ==
  /\ \A i \in FromOthers :
       /\ rlog[i].stamp = ZeroTime
       /\ LoopStopped => i # Len(rlog)
  /\ lrt # ZeroTime =>
       \/ \E i \in (1..Len(rlog)) \ FromOthers : rlog[i].stamp = lrt
       \/ cur.src = remoteAddr /\ cur.stamp = lrt
  /\ LoopStopped =>
       /\ {i \in 1..Len(rlog) : IsAnswer(rlog[i])} = {Len(rlog)}
       /\ lrt = Last(rlog).stamp

\* C2 witness: the loop stopped on the remote host's answer after a RST from
\* another source and a segment of the remote host that did not qualify
C2_Witness ==
  /\ LoopStopped
  /\ Len(rlog) = 3
  /\ \E i \in FromOthers : HasFlag(rlog[i].ctrl, RST)
  /\ \E i \in 1..2 : rlog[i].src = remoteAddr

\* the duration between two stamps
Between(sent, received) == received - sent

\* C3: latency returns receiveTimestamp minus sendTimestamp exactly: the duration
\* reported is the stamp of the segment that ended the loop minus the time
\* taken before the write, with no clamping or other adjustment, whether it is
\* positive or not.
C3_ExactDifference ==
  mpc = "done" =>
    /\ rlog # <<>>
    /\ result = <<Between(sendTime, Last(rlog).stamp)>>
    /\ sendTime # ZeroTime

\* C3 witness: a send at T0 and a receive at T0+D, D > 0, reported as D
C3_Witness ==
  /\ mpc = "done"
  /\ result[1] > 0
  /\ Last(rlog).stamp = sendTime + result[1]

\* C4: the receive timestamp is published through the completion signal: when
\* the main flow reads receiveTime (and after), the goroutine has written its
\* final value, which is a stamp and not the zero time, and has called wg.Done;
\* the read is never concurrent with the write.
C4_PublishedBeforeRead ==
  mpc \in {"sub", "done"} =>
    /\ lpc = "exit"
    /\ wg = 0
    /\ receiveTime = lrt
    /\ receiveTime # ZeroTime

\* C4 witness: the main flow is about to read receiveTime
C4_Witness ==
  /\ mpc = "sub"
  /\ proc = "running"
  /\ receiveTime # ZeroTime

\* conn.Write has returned
WriteReturned == numWrote # -1

\* C5: listener readiness: the reply listener has opened its listening socket
\* before the probe sender writes the SYN segment, in every interleaving.
C5_ListenerBoundBeforeWrite == WriteReturned => lsock = "open"

\* C6: the segment that ends the listener loop was received after this
\* measurement's SYN was written.
C6_AnswerAfterProbe == LoopStopped => Last(rlog).afterSyn

\* an answer (RST or SYN+ACK from the remote address) has reached the listener:
\* it is queued on the socket, in the loop's hands, or dealt with
AnswerDelivered ==
  \/ \E i \in 1..Len(rxq) : IsAnswer(rxq[i])
  \/ lpc \in {"filter", "stamp", "decode"} /\ IsAnswer(cur)
  \/ \E i \in 1..Len(rlog) : IsAnswer(rlog[i])

\* C7: no timeout or cancellation: latency returns a duration only after the
\* probe has been written in full and the listener has read a qualifying
\* segment; as long as no segment from the remote address with RST or SYN+ACK
\* has been delivered to the listening socket, the listener has not left its
\* loop and latency has not returned.
C7_DoneOnlyAfterAnswer ==
  /\ mpc = "done" =>
       /\ numWrote = DataLen
       /\ ~werr
       /\ ssock = "closed"
       /\ LoopStopped
       /\ IsAnswer(Last(rlog))
       /\ result # NoResult
  /\ ~AnswerDelivered =>
       /\ ~LoopStopped
       /\ mpc \notin {"sub", "done"}
       /\ result = NoResult

\* C7 witness: the probe is written and closed, no answer has been delivered, and
\* the main flow waits on the listener, which is blocked in its read
C7_Witness ==
  /\ mpc = "wait"
  /\ lpc = "read"
  /\ rxq = <<>>
  /\ answered
  /\ ~AnswerDelivered
  /\ now = MaxTime

\* C8: progress under fair scheduling: if no failure ends the process and the
\* remote host answers the probe with RST or SYN+ACK, the measurement eventually
\* reaches Done and reports a duration.
C8_EventuallyDone == <>(mpc = "done" \/ proc = "exited")

\* C9: transmission failure is fatal: if the write returns an error, or fewer
\* bytes than the serialized segment has, the process terminates and no latency
\* value is produced.
C9_BadWriteIsFatal ==
  (WriteReturned /\ (werr \/ numWrote < DataLen)) =>
    /\ proc = "exited"
    /\ fatal \in {"write", "shortwrite"}
    /\ mpc = "write"
    /\ result = NoResult

\* C9 witness: a write of all but one byte, without an error
C9_Witness ==
  /\ numWrote = DataLen - 1
  /\ ~werr
  /\ fatal = "shortwrite"

\* C10: receive failure is fatal: once a read on the listening socket has
\* returned an error, wherever the main flow is, the listener returns no
\* timestamp, no duration is produced, and the only step left is the exit.
C10_ReadErrorIsFatal ==
  rerr =>
    /\ lpc = "readerr"
    /\ receiveTime = ZeroTime
    /\ wg = 1
    /\ mpc \notin {"sub", "done"}
    /\ result = NoResult
    /\ proc = "exited" => fatal \in {"read", "dial", "write", "shortwrite", "to4byte"}

\* C10 witness: the read failed while the main flow waited, and the process
\* ended with the read's error
C10_Witness ==
  /\ rerr
  /\ mpc = "wait"
  /\ fatal = "read"

\* C11: in auto mode a failure for one target does not end the measurements of
\* the other targets: while targets remain to be measured the process runs
C11_OtherTargetsStillMeasured == todo > 0 => Running

\* C12: when the host name cannot be resolved the process ends, and neither the
\* listening socket nor the send socket has been opened, the listener not even
\* started
C12_ResolutionFailsBeforeSockets ==
  fatal = "lookup" =>
    /\ proc = "exited"
    /\ lpc = "unstarted"
    /\ lsock = "none" /\ ssock = "none"
    /\ nListen = 0 /\ nDial = 0

\* C12 witness: the resolution has failed
C12_Witness == fatal = "lookup" /\ mpc = "lookup"

\* C13: an address that is no dotted quad is rejected before the probe segment
\* is constructed or serialized
C13_RejectedBeforeBuilt ==
  fatal = "to4byte" => packet = NoPacket /\ data = <<>>

\* C14: the listening socket is closed once the listener's loop has exited, and
\* no call of latency leaves a listening socket open behind it
C14_ListenerSocketClosed ==
  /\ lpc = "exit" => lsock # "open"
  /\ leaked = 0

\* C15: for every header without options, NewTCPHeader of its Marshal gives every
\* field back
C15_RoundTrip == cpc = "decoded" => decoded = packet

\* C15 witness: a header with all control bits, ECN bits, a sequence number of
\* all ones and a checksum has been marshalled and read back
C15_Witness ==
  /\ cpc = "decoded"
  /\ packet.Ctrl = 63 /\ packet.ECN = 5 /\ packet.Reserved = 7
  /\ packet.SeqNum = <<65535, 65535>>
  /\ packet.Checksum = 4660

\* C16: sendSyn opens the socket, then takes sendTime, then writes, then closes:
\* sendTime is set only with the socket open, the write is made only with
\* sendTime set, the socket is closed only after a full write, and sendSyn has
\* returned only with the socket closed
C16_SendOrder ==
  /\ sendTime # ZeroTime => ssock # "none"
  /\ numWrote # -1 => sendTime # ZeroTime /\ sendTime <= now
  /\ mpc = "write" /\ numWrote = -1 => sendTime # ZeroTime /\ ssock = "open"
  /\ ssock = "closed" => numWrote = DataLen
  /\ mpc \in {"wait", "sub", "done"} => ssock = "closed"

\* C16 witness: sendSyn has returned after a full write
C16_Witness ==
  /\ mpc = "wait"
  /\ ssock = "closed"
  /\ numWrote = DataLen
  /\ sendTime # ZeroTime

\* C17: the listener stamps each datagram right after reading it, before the
\* remote-address filter: a datagram before the filter carries its stamp
C17_StampedBeforeFilter == lpc = "filter" => cur.stamp # ZeroTime

\* the probe header as constructed, its checksum 0
Unsummed == SynPacket(port, rng)

\* C18: the first serialization has checksum 0; the checksum is computed over
\* those bytes and the two 4-byte addresses and set in the header; the header is
\* serialized again, and those bytes, which differ from the first in the
\* checksum field only, are the ones sendSyn holds from the dial to its return,
\* so the ones handed to conn.Write
C18_ChecksumOverFirstSerialization ==
  /\ mpc = "csum" =>
       /\ packet = Unsummed
       /\ data = Marshal(Unsummed)
       /\ Get16(data, 17) = 0
  /\ mpc \in {"dial", "now", "write", "close", "wait"} =>
       LET first == Marshal(Unsummed)
       IN  /\ packet = [Unsummed EXCEPT !.Checksum =
                          Csum(first, To4byte(Local), To4byte(remoteAddr))]
           /\ data = Marshal(packet)
           /\ Len(data) = DataLen
           /\ Get16(data, 17) = packet.Checksum
           /\ [data EXCEPT ![17] = 0, ![18] = 0] = first

\* C18 witness: a probe for the largest port with a sequence number of all ones
\* is written in full, and its bytes differ from the first serialization
C18_Witness ==
  /\ mpc = "close"
  /\ synOnWire
  /\ port = 65535 /\ rng = <<65535, 65535>>
  /\ numWrote = Len(data)
  /\ data # Marshal(Unsummed)
  /\ packet.Checksum # 0

\* C19: a call of latency opens at most one listening socket and one send socket
\* and calls conn.Write at most once, and exactly once each when it returns
C19_NoRetry ==
  /\ nListen <= 1 /\ nDial <= 1 /\ nWrites <= 1
  /\ lsock = "open" => nListen = 1
  /\ mpc = "done" => nListen = 1 /\ nDial = 1 /\ nWrites = 1

\* C19 witness: latency has returned after its listener dealt with several
\* datagrams
C19_Witness ==
  /\ mpc = "done"
  /\ Len(rlog) >= 2
  /\ nWrites = 1

\* C20: latency returns only after its own listener goroutine has ended, so no
\* call of latency starts with a listener of an earlier call still running
C20_Sequential ==
  /\ mpc \in {"sub", "done"} => lpc = "exit"
  /\ stale = 0

\* C20 witness: the probe for a later target is on the wire and its listener
\* runs
C20_Witness ==
  /\ todo < MaxTargets - 1
  /\ synOnWire
  /\ lpc = "read"
  /\ stale = 0

====
